---- MODULE Spec2Model ----
(***************************************************************************)
(* The versioned object store of CarlosMecha/todo (store/store.go): one    *)
(* object in an S3 bucket, its version kept as the "version" metadata      *)
(* entry in the time.RFC1123 text format, read and written by concurrent   *)
(* callers through GetCurrentVersion, Get, SafePut and Overwrite; and the   *)
(* HTTP endpoint in front of it (server/server.go), which answers GET,     *)
(* HEAD and PUT requests by calling a store.Store: the S3 store, or the    *)
(* mockStore of server/server_test.go.                                     *)
(*                                                                         *)
(* Time.  A time.Time is an integer number of ticks, SubPerSec ticks to    *)
(* the second, counted from Mon, 02 Jan 2006 00:00:00 MST; every time is   *)
(* in the zone MST.  A version text "Mon, 02 Jan 2006 15:04:05 MST" is the *)
(* one-element sequence holding its whole second, <<54245>>; the empty     *)
(* text is << >>.  The window the clock runs through is placed around      *)
(* 15:04:05 of that day because time.RFC1123, the layout constant, is the  *)
(* text of that very instant, and the store hands the stored text to       *)
(* time.Parse as the LAYOUT (store.go:106, store.go:137).                  *)
(***************************************************************************)
EXTENDS Integers, Sequences, FiniteSets, TLC

\* ------------------------------------------------------------------ bounds
SubPerSec == 2      \* clock ticks per second (sub-second resolution)
ClockSpan == 2      \* whole seconds the clock runs through
MaxOps    == 2      \* store calls made in one behaviour

Callers == {"A", "B"}
Bodies  == {"hola", "adios"}

\* ---------------------------------------------------------------- errors
Nil                == "nil"
ErrNotModified     == "not modified"
ErrVersionConflict == "version conflict"
ErrInvalidVersion  == "invalid version"
ErrNotFound        == "not found"
BackendError       == "backend error"      \* any other awserr from S3
IOError            == "io error"           \* writer.Write failed

\* ------------------------------------------------------------------ time
\* time.Time{}: the zero time, year 1; before every other time of the model.
ZeroTime == -2000000000

RefSec == 15 * 3600 + 4 * 60 + 5           \* 15:04:05 on 2 Jan 2006
\* time.RFC1123 = "Mon, 02 Jan 2006 15:04:05 MST"
RFC1123 == <<RefSec>>

StartSec  == RefSec
StartTick == StartSec * SubPerSec
EndSec    == StartSec + ClockSpan
\* the clock readings of the model: each whole second of the window and one
\* instant inside it
Ticks     == {s * SubPerSec : s \in StartSec .. EndSec}
                 \cup {s * SubPerSec + 1 : s \in StartSec .. EndSec - 1}
\* versions a caller may hand to Get and SafePut
Versions  == Ticks \cup {ZeroTime}

\* t.After(u)
After(t, u) == t > u

\* t.Format(time.RFC1123): the text has whole seconds only.
FormatCeil(t) == << -((-t) \div SubPerSec) >>
Format(t) == << t \div SubPerSec >>

\* the time a well-formed version text denotes
TimeOf(str) == str[1] * SubPerSec

\* ------------------------------------------------ time.Parse(layout, value)
IsLeap(y) == y % 4 = 0                     \* years 1901..2099
DaysBeforeMonth(m, y) ==
    <<0, 31, 59, 90, 120, 151, 181, 212, 243, 273, 304, 334>>[m]
        + (IF IsLeap(y) /\ m > 2 THEN 1 ELSE 0)
DaysIn(m, y) ==
    IF m = 2 THEN (IF IsLeap(y) THEN 29 ELSE 28)
    ELSE IF m \in {4, 6, 9, 11} THEN 30 ELSE 31
\* days from 1 Jan 2006 to 1 Jan y
DaysBeforeYear(y) == 365 * (y - 2006) + ((y - 1) \div 4) - (2005 \div 4)
\* time.Date(...): seconds from Mon, 02 Jan 2006 00:00:00
Date(y, m, d, hh, mm, ss) ==
    (DaysBeforeYear(y) + DaysBeforeMonth(m, y) + (d - 1) - 1) * 86400
        + hh * 3600 + mm * 60 + ss

\* One two-digit group g of the layout's clock part, met with the two
\* digits v of the value.  nextStdChunk reads "01".."06" and "15" as the
\* reference fields (month, day, 12-hour, minute, second, 2-digit year,
\* 24-hour); "00", "07", "08", "09" are literal text that must equal the
\* value's digits; any other group starts with a one-digit field ('1' month,
\* '2' day, '3' hour, '4' minute, '5' second) that swallows both digits of
\* the value and leaves the group's second digit unmatched: an error.
ParseGroup(f, g, v) ==
    IF ~f.ok THEN f
    ELSE IF g = 1 THEN [f EXCEPT !.month = v, !.ok = v >= 1 /\ v <= 12]
    ELSE IF g = 2 THEN [f EXCEPT !.day = v]
    ELSE IF g = 3 THEN [f EXCEPT !.hour = v, !.ok = v <= 12]
    ELSE IF g = 4 THEN [f EXCEPT !.min = v]
    ELSE IF g = 5 THEN [f EXCEPT !.sec = v]
    ELSE IF g = 6 THEN [f EXCEPT !.year = IF v >= 69 THEN 1900 + v ELSE 2000 + v]
    ELSE IF g = 15 THEN [f EXCEPT !.hour = v, !.ok = v < 24]
    ELSE IF g \in {0, 7, 8, 9} THEN [f EXCEPT !.ok = g = v]
    ELSE [f EXCEPT !.ok = FALSE]

\* time.Parse(str, time.RFC1123): the stored text str is the layout, the
\* constant is the value.  A layout of another day than Mon, 02 Jan 2006, or
\* the empty layout, does not match the value's date text ("extra text", a
\* literal weekday or month, a year that is not "2006").
ParseAsLayout(str) ==
    IF str = << >> THEN [ok |-> FALSE, t |-> ZeroTime]
    ELSE IF str[1] \div 86400 # 0 THEN [ok |-> FALSE, t |-> ZeroTime]
    ELSE LET sod == str[1]
             f0  == [ok |-> TRUE, year |-> 2006, month |-> 1, day |-> 2,
                     hour |-> 0, min |-> 0, sec |-> 0]
             f1  == ParseGroup(f0, sod \div 3600, RefSec \div 3600)
             f2  == ParseGroup(f1, (sod \div 60) % 60, (RefSec \div 60) % 60)
             f3  == ParseGroup(f2, sod % 60, RefSec % 60)
         IN  IF f3.ok /\ f3.day >= 1 /\ f3.day <= DaysIn(f3.month, f3.year)
             THEN [ok |-> TRUE,
                   t  |-> Date(f3.year, f3.month, f3.day,
                               f3.hour, f3.min, f3.sec) * SubPerSec]
             ELSE [ok |-> FALSE, t |-> ZeroTime]

\* ------------------------------------------------------------------ state
VARIABLES
    object,     \* the S3 object: exists, body, Metadata["version"] (found, version)
    now,        \* the wall clock as time.Now() read it last
    pc,         \* per caller: "idle", or "write" inside store.write
    req,        \* per caller: the call in progress (op, version, body)
    last,       \* the call that returned last: its arguments, what it returned,
                \* the object it met (pre), the body it stored, and whether
                \* its backend call failed (other than with "no such key")
    ops,        \* calls made so far
    impl,       \* the store.Store the handler was given: "s3" or "mock"
    mock,       \* the mockStore's fields (version, file)
    resp,       \* the request served last and the response to it
    cli,        \* the client program (cmd/client): its position, the versions
                \* it has read, the file's modification time, the steps it
                \* has taken, its exit code
    proc,       \* the server program (cmd/server): its main routine, the
                \* serving goroutine and its error, the connections, the
                \* exit code
    both        \* the call given last to the S3 store and to the mockStore
                \* side by side, and what each returned

server == <<impl, mock, resp>>
vars == <<object, now, pc, req, last, ops, impl, mock, resp, cli, proc,
          both>>

NoObject == [exists |-> FALSE, body |-> "", found |-> FALSE, version |-> << >>]
Stored(b, str) == [exists |-> TRUE, body |-> b, found |-> TRUE, version |-> str]
NoVersion(b) == [exists |-> TRUE, body |-> b, found |-> FALSE, version |-> << >>]

NoReq  == [op |-> "none", version |-> ZeroTime, body |-> "", raced |-> ""]
NoLast == [caller |-> "none", op |-> "none", arg |-> ZeroTime, body |-> "",
           ver |-> ZeroTime, err |-> Nil, sink |-> "",
           pre |-> NoObject, raced |-> "",
           failed |-> FALSE]

\* The bucket holds no object, an object some other tool put there (no
\* version metadata, or an empty one), or an object this store wrote.
InitObjects ==
    {NoObject, NoVersion("hola"), Stored("hola", << >>)}
        \cup {Stored("hola", Format(t)) : t \in Ticks}

\* server/server.go ---------------------------------------------------
\* SizeLimit is the max size of the request body (1MB)
SizeLimit == 1 * 1024 * 1024

\* the token the handler was started with, and the Token headers of requests
AuthToken == "secret"
Tokens    == {"", "secret", "wrong"}
Methods   == {"GET", "HEAD", "PUT", "POST"}
\* the path of the static view page, and the other paths of requests
ViewPath  == "/index.html"
Paths     == {"/", "/foo"}
\* a header text that is no time in the RFC1123 format ("foo")
Garbage   == <<0, 0>>
\* the If-Modified-Since and Last-Modified header texts of requests: none,
\* garbage, the whole seconds of the window and the second before it
Dates     == {<< >>, Garbage} \cup {<<s>> : s \in StartSec - 1 .. EndSec}
\* the Content-Length of requests
Lengths   == {0, SizeLimit - 1, SizeLimit, SizeLimit + 1}
\* the Force headers of requests
Forces    == {"", "false", "true"}

NoMock == [version |-> ZeroTime, file |-> ""]
\* mockStore{version: version, file: []byte("hola")}
InitMocks == {[version |-> s * SubPerSec, file |-> "hola"] :
                 s \in StartSec .. EndSec}

Request(m, p, tk, since, modified, n, f, b) ==
    [method |-> m, path |-> p, token |-> tk, since |-> since,
     modified |-> modified, length |-> n, force |-> f, body |-> b]
NoRequest == Request("none", "", "", << >>, << >>, 0, "", "")
\* status: the status code; header: the Last-Modified header of the response
\* as sent; body: the bytes written; call, err: the store operation the
\* handler invoked ("none" if none) and the error it returned; pre: the store
\* as the request met it
Response(rq, status, header, body, call, err) ==
    [req |-> rq, status |-> status, header |-> header, body |-> body,
     call |-> call, err |-> err, pre |-> [object |-> object, mock |-> mock]]
NoResp == [req |-> NoRequest, status |-> 0, header |-> << >>, body |-> "",
           call |-> "none", err |-> Nil,
           pre |-> [object |-> NoObject, mock |-> NoMock]]

\* cmd/client -----------------------------------------------------------
\* exit: the exit code, Running while the program runs
Running == 0 - 1
\* the header the client sends its token in, and the one handler.auth reads
ClientHeader == "X-Auth-Access-Token"
ServerHeader == "Token"
\* header: the name the client's token header has when the request reaches
\* the handler
Client(at, mtime) ==
    [pc |-> at, local |-> ZeroTime, remote |-> ZeroTime, mtime |-> mtime,
     log |-> << >>, sent |-> << >>, exit |-> Running,
     header |-> ClientHeader]
\* no client is run
NoClient == Client("none", ZeroTime)

\* cmd/server -----------------------------------------------------------
\* the connections a running server may be given
Conns == {"c1", "c2", "c3"}
ErrServerClosed == "http: Server closed"
ListenError == "listen failed"
Process(main) ==
    [main |-> main, serve |-> "none", err |-> Nil,
     conns |-> [c \in Conns |-> "none"], ret |-> "none", exit |-> Running]
\* no server program is run
NoProcess == Process("none")

\* the two stores side by side ------------------------------------------
Both(op, arg, body, s3, m) ==
    [op |-> op, arg |-> arg, body |-> body, s3 |-> s3, mock |-> m]
\* no call has been given to the two stores
NoBoth == Both("none", ZeroTime, "", "none", "none")

Init ==
    /\ impl = "s3" /\ mock = NoMock /\ resp = NoResp
    /\ cli = NoClient /\ proc = NoProcess /\ both = NoBoth
    /\ object \in InitObjects
    /\ now = StartTick
    /\ pc = [c \in Callers |-> "idle"]
    /\ req = [c \in Callers |-> NoReq]
    /\ last = NoLast
    /\ ops = 0

\* ---------------------------------------------------------------- store
\* the version check with every backend error taken for "no such key"
ReadVersionNoKey(obj, ok) ==
    IF ~ok \/ ~obj.exists THEN [ver |-> ZeroTime, err |-> ErrNotFound]
    ELSE IF ~obj.found THEN [ver |-> ZeroTime, err |-> ErrInvalidVersion]
    ELSE LET p == ParseAsLayout(obj.version)
         IN  IF ~p.ok THEN [ver |-> ZeroTime, err |-> ErrInvalidVersion]
             ELSE [ver |-> p.t, err |-> Nil]

\* The version check shared by GetCurrentVersion and Get: HeadObject or
\* GetObject answered (ok) or failed with another error.
ReadVersion(obj, ok) ==
    IF ~ok THEN [ver |-> ZeroTime, err |-> BackendError]
    ELSE IF ~obj.exists THEN [ver |-> ZeroTime, err |-> ErrNotFound]
    ELSE IF ~obj.found THEN [ver |-> ZeroTime, err |-> ErrInvalidVersion]
    ELSE LET p == ParseAsLayout(obj.version)
         IN  IF ~p.ok THEN [ver |-> ZeroTime, err |-> ErrInvalidVersion]
             ELSE [ver |-> p.t, err |-> Nil]

\* a conditional put: the backend keeps the object it has unless the new
\* version is after the stored one
PutObjectIfNewer(obj, version, body, ok) ==
    IF ok /\ (~obj.exists \/ ~obj.found \/ obj.version = << >>
                 \/ After(version, TimeOf(obj.version)))
    THEN Stored(body, Format(version)) ELSE obj

\* a put that replaces the body and keeps the metadata the object has
PutObjectKeepMetadata(obj, version, body, ok) ==
    IF ~ok THEN obj
    ELSE IF obj.exists /\ obj.found THEN Stored(body, obj.version)
    ELSE Stored(body, Format(version))

\* the object after s.write(version, reader): PutObject replaces body and
\* metadata together, or fails and leaves the object alone
PutObject(obj, version, body, ok) ==
    IF ok THEN Stored(body, Format(version)) ELSE obj

Begin(c) ==
    pc[c] = "idle" /\ ops < MaxOps /\ ops' = ops + 1
        /\ UNCHANGED <<server, cli, proc, both>>

GetCurrentVersion(c) ==
    /\ Begin(c)
    /\ \E ok \in BOOLEAN :
         LET r == ReadVersion(object, ok)
         IN  last' = [caller |-> c, op |-> "GetCurrentVersion",
                      arg |-> ZeroTime, body |-> "", ver |-> r.ver,
                      err |-> r.err, sink |-> "", pre |-> object, raced |-> "",
                      failed |-> ~ok]
    /\ UNCHANGED <<object, now, pc, req>>

\* what Get returns and writes to the writer
GetResult(obj, version, ok, wok) ==
    LET r == ReadVersion(obj, ok)
    IN  IF r.err # Nil THEN [ver |-> ZeroTime, err |-> r.err, sink |-> ""]
        ELSE IF After(r.ver, version)
             THEN IF wok THEN [ver |-> r.ver, err |-> Nil, sink |-> obj.body]
                  ELSE [ver |-> ZeroTime, err |-> IOError, sink |-> ""]
             ELSE [ver |-> r.ver, err |-> Nil, sink |-> ""]

Get(c, version) ==
    /\ Begin(c)
    /\ \E ok \in BOOLEAN, wok \in BOOLEAN :
         LET r == GetResult(object, version, ok, wok)
         IN  last' = [caller |-> c, op |-> "Get",
                      arg |-> version, body |-> "", ver |-> r.ver,
                      err |-> r.err, sink |-> r.sink, pre |-> object,
                      raced |-> "",
                      failed |-> ~ok]
    /\ UNCHANGED <<object, now, pc, req>>

\* base64.StdEncoding.EncodeToString(content), set in the htmlView page
Base64(b) == IF b = "hola" THEN "aG9sYQ==" ELSE IF b = "adios" THEN "YWRpb3M=" ELSE ""

\* what GetHTMLView returns and writes to the writer: GetObject answered
\* (ok) or not, the body was read and the writer took the page (wok) or not;
\* the version metadata is not looked at
ViewResult(obj, ok, wok) ==
    IF ~ok THEN [err |-> BackendError, sink |-> ""]
    ELSE IF ~obj.exists THEN [err |-> ErrNotFound, sink |-> ""]
    ELSE IF ~wok THEN [err |-> IOError, sink |-> ""]
    ELSE [err |-> Nil, sink |-> Base64(obj.body)]

\* GetHTMLView that stamps the object with the time it was viewed
GetHTMLViewStamping(c) ==
    /\ Begin(c)
    /\ \E ok \in BOOLEAN, wok \in BOOLEAN :
         LET r == ViewResult(object, ok, wok)
         IN  /\ last' = [caller |-> c, op |-> "GetHTMLView",
                         arg |-> ZeroTime, body |-> "", ver |-> ZeroTime,
                         err |-> r.err, sink |-> r.sink, pre |-> object,
                         raced |-> "",
                         failed |-> ~ok]
             /\ object' = IF r.err = Nil THEN Stored(object.body, Format(now))
                          ELSE object
    /\ UNCHANGED <<now, pc, req>>

GetHTMLView(c) ==
    /\ Begin(c)
    /\ \E ok \in BOOLEAN, wok \in BOOLEAN :
         LET r == ViewResult(object, ok, wok)
         IN  last' = [caller |-> c, op |-> "GetHTMLView",
                      arg |-> ZeroTime, body |-> "", ver |-> ZeroTime,
                      err |-> r.err, sink |-> r.sink, pre |-> object,
                      raced |-> "",
                      failed |-> ~ok]
    /\ UNCHANGED <<object, now, pc, req>>

\* SafePut taking every object whose version it cannot read for version zero
SafePutCheckLenient(obj, version, ok) ==
    LET r   == ReadVersion(obj, ok)
        cur == IF r.err \in {ErrNotFound, ErrInvalidVersion} THEN ZeroTime
               ELSE r.ver
    IN  IF r.err = BackendError THEN r.err
        ELSE IF After(cur, version) THEN ErrVersionConflict
        ELSE Nil

\* SafePut up to its call of s.write: the error it returns, or Nil when it
\* goes on to write.
SafePutCheck(obj, version, ok) ==
    LET r   == ReadVersion(obj, ok)
        cur == IF r.err = ErrNotFound THEN ZeroTime ELSE r.ver
    IN  IF r.err # Nil /\ r.err # ErrNotFound THEN r.err
        ELSE IF After(cur, version) THEN ErrVersionConflict
        ELSE Nil

\* SafePut with the write issued before the version check
SafePutEager(c, version, body) ==
    /\ Begin(c)
    /\ \E ok \in BOOLEAN :
         LET e == SafePutCheck(object, version, ok)
         IN  /\ object' = PutObject(object, version, body, TRUE)
             /\ last' = [caller |-> c, op |-> "SafePut",
                         arg |-> version, body |-> IF e = Nil THEN body ELSE "",
                         ver |-> ZeroTime, err |-> e, sink |-> "",
                         pre |-> object, raced |-> "",
                         failed |-> ~ok]
    /\ UNCHANGED <<now, pc, req>>

SafePut(c, version, body) ==
    /\ Begin(c)
    /\ \E ok \in BOOLEAN :
         LET e == SafePutCheck(object, version, ok)
         IN  IF e # Nil
             THEN /\ last' = [caller |-> c, op |-> "SafePut",
                              arg |-> version, body |-> "", ver |-> ZeroTime,
                              err |-> e, sink |-> "", pre |-> object,
                              raced |-> "",
                              failed |-> ~ok]
                  /\ UNCHANGED <<pc, req>>
             ELSE /\ pc' = [pc EXCEPT ![c] = "write"]
                  /\ req' = [req EXCEPT ![c] =
                               [op |-> "SafePut",
                                version |-> version, body |-> body,
                                raced |-> ""]]
                  /\ UNCHANGED last
    /\ UNCHANGED <<object, now>>

\* Overwrite routed through SafePut's version check
OverwriteChecked(c, body) ==
    /\ Begin(c)
    /\ \E t \in Ticks, ok \in BOOLEAN :
         LET e == SafePutCheck(object, t, ok)
         IN  /\ t >= now
             /\ now' = t
             /\ IF e # Nil
                THEN /\ last' = [caller |-> c, op |-> "Overwrite",
                                 arg |-> t, body |-> "", ver |-> ZeroTime,
                                 err |-> e, sink |-> "", pre |-> object,
                                 raced |-> "",
                                 failed |-> ~ok]
                     /\ UNCHANGED <<pc, req>>
                ELSE /\ pc' = [pc EXCEPT ![c] = "write"]
                     /\ req' = [req EXCEPT ![c] =
                                  [op |-> "Overwrite", version |-> t,
                                   body |-> body, raced |-> ""]]
                     /\ UNCHANGED last
    /\ UNCHANGED object

\* time.Now() reads the wall clock, which has not gone back since it was
\* read last.
Overwrite(c, body) ==
    /\ Begin(c)
    /\ \E t \in Ticks :
         /\ t >= now
         /\ now' = t
         /\ req' = [req EXCEPT ![c] =
                      [op |-> "Overwrite", version |-> t,
                       body |-> body, raced |-> ""]]
    /\ pc' = [pc EXCEPT ![c] = "write"]
    /\ UNCHANGED <<object, last>>

write(c) ==
    /\ pc[c] = "write"
    /\ \E ok \in BOOLEAN :
         /\ object' = PutObject(object, req[c].version, req[c].body, ok)
         /\ last' = [caller |-> c, op |-> req[c].op,
                     arg |-> req[c].version,
                     body |-> IF ok THEN req[c].body ELSE "",
                     ver |-> ZeroTime,
                     err |-> IF ok THEN Nil ELSE BackendError,
                     sink |-> "", pre |-> object, raced |-> req[c].raced,
                     failed |-> ~ok]
         \* a call that passed its check before this write landed has raced it
         \* (raced: the operation whose write landed in between)
         /\ req' = [d \in Callers |->
                      IF d = c THEN NoReq
                      ELSE IF pc[d] = "write" /\ ok
                           THEN [req[d] EXCEPT !.raced = req[c].op]
                           ELSE req[d]]
    /\ pc' = [pc EXCEPT ![c] = "idle"]
    /\ UNCHANGED <<now, ops, server, cli, proc, both>>

Next ==
    \/ \E c \in Callers : GetCurrentVersion(c)
    \/ \E c \in Callers, v \in Versions : Get(c, v)
    \/ \E c \in Callers : GetHTMLView(c)
    \/ \E c \in Callers, v \in Versions, b \in Bodies : SafePut(c, v, b)
    \/ \E c \in Callers, b \in Bodies : Overwrite(c, b)
    \/ \E c \in Callers : write(c)

Spec == Init /\ [][Next]_vars

TypeOK ==
    /\ object.exists \in BOOLEAN /\ object.found \in BOOLEAN
    /\ object.body \in Bodies \cup {""}
    /\ Len(object.version) <= 1
    /\ (object.exists => object.body \in Bodies)
    /\ now \in Ticks
    /\ pc \in [Callers -> {"idle", "write"}]
    /\ \A c \in Callers : (pc[c] = "idle") = (req[c] = NoReq)
    /\ ops \in 0 .. MaxOps

\* =============================================================== server
\* The handler of server/server.go in front of a store.Store.  One request is
\* served at a time; each action is one pass through ServeHTTP.  The store
\* calls are the operations above (the S3 store) or the mockStore's.

ErrNoAuthProvided == "no token auth provided"
ErrInvalidAuth    == "invalid token"

\* handler.auth with an empty configured check: any token is let in
authAny(tk) == Nil
\* handler.auth
auth(tk) ==
    IF tk = "" THEN ErrNoAuthProvided
    ELSE IF tk # AuthToken THEN ErrInvalidAuth
    ELSE Nil

\* time.Parse(time.RFC1123, date)
ParseRFC1123(str) ==
    IF Len(str) = 1 THEN [ok |-> TRUE, t |-> TimeOf(str)]
    ELSE [ok |-> FALSE, t |-> ZeroTime]

RootPath(p) == p = "" \/ p = "/"
IsView(rq) == rq.method = "GET" /\ rq.path = ViewPath

\* mockStore.Get
MockGet(m, version, wok) ==
    IF version < m.version
    THEN IF wok THEN [ver |-> m.version, err |-> Nil, sink |-> m.file]
         ELSE [ver |-> m.version, err |-> IOError, sink |-> ""]
    ELSE IF version = m.version
         THEN [ver |-> m.version, err |-> ErrNotModified, sink |-> ""]
         ELSE [ver |-> m.version, err |-> ErrVersionConflict, sink |-> ""]

\* h.store.GetCurrentVersion()
StoreGetCurrentVersion(ok) ==
    IF impl = "s3" THEN ReadVersion(object, ok)
    ELSE [ver |-> mock.version, err |-> Nil]

\* h.store.Get(version, resp)
StoreGet(version, ok, wok) ==
    IF impl = "s3" THEN GetResult(object, version, ok, wok)
    ELSE MockGet(mock, version, wok)

\* h.store.SafePut(version, req.ContentLength, reader): the store it leaves
\* and the error it returns.  ok: HeadObject answered; pok: PutObject did.
StoreSafePut(version, body, ok, pok) ==
    IF impl = "s3"
    THEN LET e == SafePutCheck(object, version, ok)
         IN  IF e # Nil THEN [object |-> object, mock |-> mock, err |-> e]
             ELSE [object |-> PutObject(object, version, body, pok),
                   mock |-> mock,
                   err |-> IF pok THEN Nil ELSE BackendError]
    ELSE IF After(version, mock.version)
         THEN [object |-> object,
               mock |-> [version |-> version, file |-> body], err |-> Nil]
         ELSE [object |-> object, mock |-> mock, err |-> ErrVersionConflict]

\* h.store.Overwrite(req.ContentLength, reader) called at time t
StoreOverwrite(t, body, pok) ==
    IF impl = "s3"
    THEN [object |-> PutObject(object, t, body, pok), mock |-> mock,
          err |-> IF pok THEN Nil ELSE BackendError]
    ELSE [object |-> object, mock |-> [version |-> t, file |-> body],
          err |-> Nil]

\* the status handler.get, handler.head and handler.put answer with for the
\* error the store returned
\* handler.get without the two version answers
GetStatusBlunt(err) == IF err # Nil THEN 500 ELSE 200
GetStatus(err) ==
    IF err = ErrNotModified THEN 304
    ELSE IF err = ErrVersionConflict THEN 409
    ELSE IF err # Nil THEN 500
    ELSE 200
HeadStatus(err) == IF err # Nil THEN 500 ELSE 200
PutStatus(err) ==
    IF err = Nil THEN 200
    ELSE IF err # ErrVersionConflict THEN 500
    ELSE 409

\* the body is too large for handler.put
TooLarge(n) == n >= SizeLimit
\* the Force header asks for Overwrite
Forced(f) == ~(f = "" \/ f = "false")

\* the status handler.put turns the request down with before it reads the
\* body, 0 if it does not
PutRejection(rq) ==
    IF ~RootPath(rq.path) THEN 404
    ELSE IF ~ParseRFC1123(rq.modified).ok THEN 400
    ELSE IF rq.length <= 0 THEN 400
    ELSE IF TooLarge(rq.length) THEN 413
    ELSE 0

Served == UNCHANGED <<pc, req, last, ops, impl, cli, proc, both>>

\* the answers of the backend to one call: S3 answers or fails; the mockStore
\* has no backend
Backend == IF impl = "s3" THEN BOOLEAN ELSE {TRUE}

\* GET /index.html: handler.getView, served without a token
getView(tk, wok) ==
    LET rq == Request("GET", ViewPath, tk, << >>, << >>, 0, "", "") IN
    /\ IsView(rq)
    /\ resp' = Response(rq, IF wok THEN 200 ELSE 500, << >>,
                        IF wok THEN "htmlView" ELSE "", "none", Nil)
    /\ Served /\ UNCHANGED <<object, mock, now>>

\* h.auth(req) failed
Unauthorized(m, p, tk, d) ==
    LET rq == Request(m, p, tk, d, d, 0, "", "") IN
    /\ ~IsView(rq)
    /\ auth(rq.token) # Nil
    /\ resp' = Response(rq, 401, << >>, "Unauthorized request", "none", Nil)
    /\ Served /\ UNCHANGED <<object, mock, now>>

Authorized(rq) == ~IsView(rq) /\ auth(rq.token) = Nil

get(p, tk, d) ==
    LET rq == Request("GET", p, tk, d, << >>, 0, "", "") IN
    /\ Authorized(rq) /\ rq.method = "GET"
    /\ IF ~RootPath(rq.path)
       THEN resp' = Response(rq, 404, << >>, "", "none", Nil)
       ELSE IF rq.since # << >> /\ ~ParseRFC1123(rq.since).ok
       THEN resp' = Response(rq, 400, << >>, "", "none", Nil)
       ELSE \E ok \in Backend, wok \in BOOLEAN :
              LET version == IF rq.since = << >> THEN ZeroTime
                             ELSE ParseRFC1123(rq.since).t
                  r == StoreGet(version, ok, wok)
              IN  resp' = Response(rq, GetStatus(r.err),
                              \* a header added after the body was written
                              \* is not sent
                              IF r.err = Nil /\ r.sink = ""
                              THEN Format(r.ver) ELSE << >>,
                              r.sink, "Get", r.err)
    /\ Served /\ UNCHANGED <<object, mock, now>>

head(p, tk) ==
    LET rq == Request("HEAD", p, tk, << >>, << >>, 0, "", "") IN
    /\ Authorized(rq) /\ rq.method = "HEAD"
    /\ IF ~RootPath(rq.path)
       THEN resp' = Response(rq, 404, << >>, "", "none", Nil)
       ELSE \E ok \in Backend :
              LET r == StoreGetCurrentVersion(ok)
              IN  resp' = Response(rq, HeadStatus(r.err),
                              IF r.err = Nil THEN Format(r.ver) ELSE << >>,
                              "", "GetCurrentVersion", r.err)
    /\ Served /\ UNCHANGED <<object, mock, now>>

\* handler.put with the body handed to the store before the request is
\* looked at
putWriteFirst(p, tk, d, n, f, b) ==
    LET rq == Request("PUT", p, tk, << >>, d, n, f, b) IN
    /\ Authorized(rq) /\ rq.method = "PUT"
    /\ \E t \in Ticks, pok \in Backend :
         LET w == [object |-> PutObject(object, t, rq.body, pok),
                   mock |-> IF impl = "s3" THEN mock
                            ELSE [version |-> t, file |-> rq.body],
                   err |-> IF pok THEN Nil ELSE BackendError]
         IN  /\ t >= now
             /\ now' = t
             /\ object' = IF impl = "s3" THEN w.object ELSE object
             /\ mock' = w.mock
             /\ resp' = [req |-> rq,
                         status |-> IF PutRejection(rq) # 0
                                    THEN PutRejection(rq)
                                    ELSE IF w.err = Nil THEN 200 ELSE 500,
                         header |-> << >>, body |-> "",
                         call |-> "Overwrite", err |-> w.err,
                         pre |-> [object |-> object, mock |-> mock]]
    /\ UNCHANGED <<pc, req, last, ops, impl, cli, proc, both>>

\* what handler.put answers once the store has returned w
PutResponse(rq, call, w) ==
    Response(rq, PutStatus(w.err),
             IF w.err = Nil THEN Format(ParseRFC1123(rq.modified).t)
             ELSE << >>, "", call, w.err)

put(p, tk, d, n, f, b) ==
    LET rq == Request("PUT", p, tk, << >>, d, n, f, b) IN
    /\ Authorized(rq) /\ rq.method = "PUT"
    /\ IF PutRejection(rq) # 0
       THEN /\ resp' = Response(rq, PutRejection(rq), << >>, "", "none", Nil)
            /\ UNCHANGED <<object, mock, now>>
       ELSE \E rok \in BOOLEAN :
              IF ~rok          \* copyBody failed
              THEN /\ resp' = Response(rq, 500, << >>, "", "none", Nil)
                   /\ UNCHANGED <<object, mock, now>>
              ELSE IF Forced(rq.force)
              THEN \E t \in Ticks, pok \in Backend :
                     LET w == StoreOverwrite(t, rq.body, pok)
                     IN  /\ t >= now
                         /\ now' = t
                         /\ object' = w.object
                         /\ mock' = w.mock
                         /\ resp' = PutResponse(rq, "Overwrite", w)
              ELSE \E ok \in Backend, pok \in Backend :
                     LET w == StoreSafePut(ParseRFC1123(rq.modified).t,
                                           rq.body, ok, pok)
                     IN  /\ object' = w.object
                         /\ mock' = w.mock
                         /\ resp' = PutResponse(rq, "SafePut", w)
                         /\ UNCHANGED now
    /\ Served

\* a method that is not GET, HEAD or PUT
NotRecognized(m, p, tk) ==
    LET rq == Request(m, p, tk, << >>, << >>, 0, "", "") IN
    /\ Authorized(rq) /\ rq.method \notin {"GET", "HEAD", "PUT"}
    /\ resp' = Response(rq, 404, << >>, "", "none", Nil)
    /\ Served /\ UNCHANGED <<object, mock, now>>

\* the handler is given the S3 store over some bucket, or a mockStore
ServerInit ==
    /\ impl \in {"s3", "mock"}
    /\ IF impl = "s3" THEN object \in InitObjects /\ mock = NoMock
       ELSE object = NoObject /\ mock \in InitMocks
    /\ resp = NoResp
    /\ cli = NoClient /\ proc = NoProcess /\ both = NoBoth
    /\ now = StartTick
    /\ pc = [c \in Callers |-> "idle"]
    /\ req = [c \in Callers |-> NoReq]
    /\ last = NoLast
    /\ ops = 0

\* The requests served.  A header or body the handler does not get to read
\* is left out of the request: an unauthorized request carries no body and
\* no Force header (and garbage for a date), and so does a PUT with a wrong
\* path or a wrong length (its body is "hola").
ServerNext ==
    \/ \E tk \in Tokens, wok \in BOOLEAN : getView(tk, wok)
    \/ \E m \in Methods, p \in Paths, tk \in Tokens :
         Unauthorized(m, p, tk, Garbage)
    \/ \E p \in Paths, tk \in Tokens, d \in Dates : get(p, tk, d)
    \/ \E p \in Paths, tk \in Tokens : head(p, tk)
    \/ \E tk \in Tokens, d \in Dates, f \in Forces, b \in Bodies :
         put("/", tk, d, SizeLimit - 1, f, b)
    \/ \E p \in Paths, d \in {<< >>, Garbage, <<StartSec>>}, n \in Lengths :
         put(p, AuthToken, d, n, "", "hola")
    \/ \E m \in Methods, p \in Paths, tk \in Tokens : NotRecognized(m, p, tk)

ServerSpec == ServerInit /\ [][ServerNext]_vars

ServerTypeOK ==
    /\ impl \in {"s3", "mock"}
    /\ mock.file \in Bodies \cup {""}
    /\ resp.status \in {0, 200, 304, 400, 401, 404, 409, 413, 500}
    /\ resp.call \in {"none", "Get", "GetCurrentVersion", "SafePut", "Overwrite"}
    /\ Len(resp.header) <= 1
    /\ now \in Ticks

\* =============================================================== client
\* The client program of cmd/client/main.go, run against the HTTP server at
\* TODO_ADDR: what that server answers is drawn with each request.

\* main's test for a conflict that it never reports
ConflictNever(local, remote) == FALSE
\* main: the local file is newer than the remote one
Conflict(local, remote) == After(local, remote)

\* os.Exit(code)
Exit(code) == cli' = [cli EXCEPT !.pc = "exited", !.exit = code]
ClientStep == UNCHANGED <<object, pc, req, last, ops, server, proc, both>>

\* getVar: an environment variable without a default is not defined
getVar ==
    /\ cli.pc = "start"
    /\ \E defined \in BOOLEAN :
         IF defined THEN cli' = [cli EXCEPT !.pc = "local"] ELSE Exit(1)
    /\ ClientStep /\ UNCHANGED now

\* localVersion := getLocalVersion(file)
getLocalVersion ==
    /\ cli.pc = "local"
    /\ \E ok \in BOOLEAN :
         IF ok
         THEN cli' = [cli EXCEPT !.pc = "remote", !.local = cli.mtime,
                                 !.log = Append(cli.log, "stat")]
         ELSE Exit(2)
    /\ ClientStep /\ UNCHANGED now

\* getRemoteVersion once client.Do has returned: the request failed, or was
\* answered with the Last-Modified header h (whatever the status)
RemoteVersion(ok, h) ==
    IF ~ok \/ (h # << >> /\ ~ParseRFC1123(h).ok)
    THEN [cli EXCEPT !.pc = "exited", !.exit = 2,
                     !.log = Append(cli.log, "HEAD")]
    ELSE [cli EXCEPT !.pc = "check",
                     !.remote = IF h = << >> THEN ZeroTime
                                ELSE ParseRFC1123(h).t,
                     !.log = Append(cli.log, "HEAD")]

\* remoteVersion := getRemoteVersion(client, addr, token): the HEAD request
\* fails, or is answered with the Last-Modified header h
getRemoteVersion ==
    /\ cli.pc = "remote"
    /\ \E ok \in BOOLEAN, h \in Dates : cli' = RemoteVersion(ok, h)
    /\ ClientStep /\ UNCHANGED now

\* if localVersion.After(remoteVersion) { os.Exit(3) }
checkConflict ==
    /\ cli.pc = "check"
    /\ IF Conflict(cli.local, cli.remote) THEN Exit(3)
       ELSE cli' = [cli EXCEPT !.pc = "editor"]
    /\ ClientStep /\ UNCHANGED now

\* execEditor(editor, file): the editor fails, leaves the file alone, or
\* writes it at some time t
execEditor ==
    /\ cli.pc = "editor"
    /\ \E ok \in BOOLEAN, saved \in BOOLEAN, t \in Ticks :
         /\ t >= now
         /\ now' = t
         /\ IF ~ok
            THEN cli' = [cli EXCEPT !.pc = "exited", !.exit = 2,
                                    !.log = Append(cli.log, "editor")]
            ELSE cli' = [cli EXCEPT !.pc = "upload",
                                    !.mtime = IF saved THEN t ELSE cli.mtime,
                                    !.log = Append(cli.log, "editor")]
    /\ ClientStep

\* upload(client, addr, token, file): stat and open the file, PUT it with
\* its modification time as Last-Modified; the response is not looked at
upload ==
    /\ cli.pc = "upload"
    /\ \E fileok \in BOOLEAN, ok \in BOOLEAN :
         IF ~fileok THEN Exit(2)
         ELSE IF ~ok
         THEN cli' = [cli EXCEPT !.pc = "exited", !.exit = 2,
                                 !.log = Append(cli.log, "PUT"),
                                 !.sent = Format(cli.mtime)]
         ELSE cli' = [cli EXCEPT !.pc = "exited", !.exit = 0,
                                 !.log = Append(cli.log, "PUT"),
                                 !.sent = Format(cli.mtime)]
    /\ ClientStep /\ UNCHANGED now

\* the file to edit was written at some time of the window
ClientInit ==
    /\ cli \in {Client("start", t) : t \in Ticks}
    /\ proc = NoProcess /\ both = NoBoth
    /\ impl = "s3" /\ mock = NoMock /\ resp = NoResp
    /\ object = NoObject
    /\ now = StartTick
    /\ pc = [c \in Callers |-> "idle"]
    /\ req = [c \in Callers |-> NoReq]
    /\ last = NoLast
    /\ ops = 0

ClientNext ==
    \/ getVar
    \/ getLocalVersion
    \/ getRemoteVersion
    \/ checkConflict
    \/ execEditor
    \/ upload

ClientSpec == ClientInit /\ [][ClientNext]_vars

\* =============================================================== system
\* The client run against the handler of this repository with the S3 store.
\* The client's requests reach the handler as the client sends them, or
\* through a front end that hands the token on in the header the handler
\* reads.  A request is served by the handler in one step and its response is
\* taken by the client in the next.

\* req.Header.Get("Token") on a request of the client
TokenSeen == IF cli.header = ServerHeader THEN AuthToken ELSE ""

\* the Content-Length the handler sees on the client's PUT: http.NewRequest
\* sets none for a body that is an *os.File, so the body is sent chunked
UnknownLength == 0 - 1

\* resp is the response to the client's request with method m
ResponseTo(m) == resp.req.method = m

\* the handler serves the client's HEAD request
serveHead ==
    /\ cli.pc = "remote" /\ ~ResponseTo("HEAD")
    /\ IF auth(TokenSeen) # Nil
       THEN Unauthorized("HEAD", "/", TokenSeen, << >>)
       ELSE head("/", TokenSeen)

\* getRemoteVersion takes the response
takeHead ==
    /\ cli.pc = "remote" /\ ResponseTo("HEAD")
    /\ \E ok \in BOOLEAN : cli' = RemoteVersion(ok, resp.header)
    /\ ClientStep /\ UNCHANGED now

\* upload cannot stat or open the file
uploadNoFile ==
    /\ cli.pc = "upload" /\ ~ResponseTo("PUT")
    /\ Exit(2)
    /\ ClientStep /\ UNCHANGED now

\* the handler serves the client's PUT request
servePut ==
    /\ cli.pc = "upload" /\ ~ResponseTo("PUT")
    /\ IF auth(TokenSeen) # Nil
       THEN Unauthorized("PUT", "/", TokenSeen, Format(cli.mtime))
       ELSE put("/", TokenSeen, Format(cli.mtime), UnknownLength, "", "hola")

\* upload returns: client.Do failed, or answered; the response is dropped
uploaded ==
    /\ cli.pc = "upload" /\ ResponseTo("PUT")
    /\ \E ok \in BOOLEAN :
         cli' = [cli EXCEPT !.pc = "exited", !.exit = IF ok THEN 0 ELSE 2,
                            !.log = Append(cli.log, "PUT"),
                            !.sent = Format(cli.mtime)]
    /\ ClientStep /\ UNCHANGED now

\* the bucket is in any of its states, the file was written at some time
SystemInit ==
    /\ cli \in {[Client("start", t) EXCEPT !.header = h] :
                  t \in Ticks, h \in {ClientHeader, ServerHeader}}
    /\ object \in InitObjects
    /\ impl = "s3" /\ mock = NoMock /\ resp = NoResp
    /\ proc = NoProcess /\ both = NoBoth
    /\ now = StartTick
    /\ pc = [c \in Callers |-> "idle"]
    /\ req = [c \in Callers |-> NoReq]
    /\ last = NoLast
    /\ ops = 0

SystemNext ==
    \/ getVar
    \/ getLocalVersion
    \/ serveHead
    \/ takeHead
    \/ checkConflict
    \/ execEditor
    \/ uploadNoFile
    \/ servePut
    \/ uploaded

SystemSpec == SystemInit /\ [][SystemNext]_vars
\* every routine that can take a step takes one
SystemFair == SystemSpec /\ WF_vars(SystemNext)

\* ============================================================== process
\* The server program: main of cmd/server/main.go, the goroutine started by
\* RunServer, and the goroutines of net/http that serve the connections.
\* Every routine takes its steps in any order until the process exits.

ProcessStep ==
    UNCHANGED <<object, now, pc, req, last, ops, server, cli, both>>

\* if err := server.ListenAndServeTLS(cert, key); err != nil
FatalOn(err) == err # Nil

\* Server.Shutdown has been called
ShutDown == proc.main \in {"draining", "returned", "stopped", "done"}

\* http := server.RunServer(...): the goroutine is started
RunServer ==
    /\ proc.exit = Running /\ proc.main = "start"
    /\ proc' = [proc EXCEPT !.main = "notify", !.serve = "starting"]
    /\ ProcessStep

\* server.ListenAndServeTLS: the listener is opened, or opening it (or
\* loading the certificate) fails; on a server shut down already it returns
\* ErrServerClosed
Listen ==
    /\ proc.exit = Running /\ proc.serve = "starting"
    /\ IF ShutDown
       THEN proc' = [proc EXCEPT !.serve = "returned", !.err = ErrServerClosed]
       ELSE \E ok \in BOOLEAN :
              IF ok THEN proc' = [proc EXCEPT !.serve = "listening"]
              ELSE proc' = [proc EXCEPT !.serve = "returned",
                                        !.err = ListenError]
    /\ ProcessStep

\* Server.Serve accepts a connection and starts its goroutine
Accept(c) ==
    /\ proc.exit = Running /\ proc.serve = "listening" /\ ~ShutDown
    /\ proc.conns[c] = "none"
    /\ proc' = [proc EXCEPT !.conns[c] = "serving"]
    /\ ProcessStep

\* the requests as handler.ServeHTTP tells them apart: the view, a request
\* without the token, any other
Kinds == {"view", "unauthorized", "authorized"}

\* the goroutine of a connection answers its request, of kind k; writing
\* the response to the client works (wok) or fails. A failed write of the
\* 401 body goes to h.logger.Fatalf, which ends the process with exit code 1
\* and with it every other request in flight; a failed write of the view is
\* logged; the other responses are written by net/http after the handler
\* has returned
Respond(c, k, wok) ==
    /\ proc.exit = Running /\ proc.conns[c] = "serving"
    /\ IF wok THEN proc' = [proc EXCEPT !.conns[c] = "answered"]
       ELSE IF k = "unauthorized"
       THEN proc' = [proc EXCEPT
                !.exit = 1,
                !.conns = [d \in Conns |->
                    IF d = c THEN "fatal"
                    ELSE IF proc.conns[d] = "serving" THEN "cut"
                    ELSE proc.conns[d]]]
       ELSE proc' = [proc EXCEPT !.conns[c] = "failed"]
    /\ ProcessStep

\* signal.Notify(stop, os.Interrupt); <-stop
Notify ==
    /\ proc.exit = Running /\ proc.main = "notify"
    /\ proc' = [proc EXCEPT !.main = "waiting"]
    /\ ProcessStep

\* the interrupt arrives and main calls http.Shutdown, which closes the
\* listener
Shutdown ==
    /\ proc.exit = Running /\ proc.main = "waiting"
    /\ proc' = [proc EXCEPT !.main = "draining"]
    /\ ProcessStep

\* Server.Serve: Accept fails on the closed listener and Serve returns
\* ErrServerClosed, whatever the connections are doing
ServeReturns ==
    /\ proc.exit = Running /\ proc.serve = "listening" /\ ShutDown
    /\ proc' = [proc EXCEPT !.serve = "returned", !.err = ErrServerClosed]
    /\ ProcessStep

\* the goroutine of RunServer: h.logger.Fatalf on an error, which ends the
\* process with exit code 1 and with it every request in flight
Fatalf ==
    /\ proc.exit = Running /\ proc.serve = "returned"
    /\ IF FatalOn(proc.err)
       THEN proc' = [proc EXCEPT
                !.serve = "fatal", !.exit = 1,
                !.conns = [c \in Conns |->
                    IF proc.conns[c] = "serving" THEN "cut"
                    ELSE proc.conns[c]]]
       ELSE proc' = [proc EXCEPT !.serve = "ended"]
    /\ ProcessStep

\* Server.Shutdown returns nil once no connection is serving a request
ShutdownReturns ==
    /\ proc.exit = Running /\ proc.main = "draining"
    /\ \A c \in Conns : proc.conns[c] # "serving"
    /\ proc' = [proc EXCEPT !.main = "returned", !.ret = Nil]
    /\ ProcessStep

\* logger.Print("Server stopped")
Stopped ==
    /\ proc.exit = Running /\ proc.main = "returned"
    /\ proc' = [proc EXCEPT !.main = "stopped"]
    /\ ProcessStep

\* main returns: the process ends with exit code 0
Return ==
    /\ proc.exit = Running /\ proc.main = "stopped"
    /\ proc' = [proc EXCEPT !.main = "done", !.exit = 0]
    /\ ProcessStep

ProcessInit ==
    /\ proc = Process("start")
    /\ cli = NoClient /\ both = NoBoth
    /\ impl = "s3" /\ mock = NoMock /\ resp = NoResp
    /\ object = NoObject
    /\ now = StartTick
    /\ pc = [c \in Callers |-> "idle"]
    /\ req = [c \in Callers |-> NoReq]
    /\ last = NoLast
    /\ ops = 0

ProcessNext ==
    \/ RunServer
    \/ Listen
    \/ \E c \in Conns : Accept(c)
    \/ \E c \in Conns, k \in Kinds, wok \in BOOLEAN : Respond(c, k, wok)
    \/ Notify
    \/ Shutdown
    \/ ServeReturns
    \/ Fatalf
    \/ ShutdownReturns
    \/ Stopped
    \/ Return

ProcessSpec == ProcessInit /\ [][ProcessNext]_vars

\* ================================================================= pair
\* The S3 store and the mockStore of the endpoint tests, started with the
\* same content and version and given the same calls, one call at a time.
\* The backend answers every call and the writer takes every write.

\* mockStore.SafePut: the mockStore it leaves and the error it returns
MockSafePut(m, version, body) ==
    IF After(version, m.version)
    THEN [mock |-> [version |-> version, file |-> body], err |-> Nil]
    ELSE [mock |-> m, err |-> ErrVersionConflict]

\* the kind of outcome of a Get: the content, or the error
GetKind(r) ==
    IF r.err # Nil THEN r.err
    ELSE IF r.sink # "" THEN "content"
    ELSE "nothing"

\* the kind of outcome of a SafePut
PutKind(err) == IF err = Nil THEN "success" ELSE err

\* the versions the two stores start with and are given to put: whole
\* seconds, as the endpoint parses them from a header
Seconds == {s * SubPerSec : s \in StartSec .. EndSec}

PairStep == UNCHANGED <<now, pc, req, last, ops, impl, resp, cli, proc>>

\* Get(version, writer) on both stores
BothGet(version) ==
    /\ both' = Both("Get", version, "",
                    GetKind(GetResult(object, version, TRUE, TRUE)),
                    GetKind(MockGet(mock, version, TRUE)))
    /\ UNCHANGED <<object, mock>>
    /\ PairStep

\* SafePut(version, reader) on both stores
BothSafePut(version, body) ==
    LET e == SafePutCheck(object, version, TRUE)
        m == MockSafePut(mock, version, body)
    IN  /\ object' = IF e = Nil THEN PutObject(object, version, body, TRUE)
                     ELSE object
        /\ mock' = m.mock
        /\ both' = Both("SafePut", version, body, PutKind(e), PutKind(m.err))
        /\ PairStep

\* both stores hold the same content with the same well-formed version
PairInit ==
    /\ \E t \in Seconds, b \in Bodies :
         /\ object = Stored(b, Format(t))
         /\ mock = [version |-> t, file |-> b]
    /\ both = NoBoth
    /\ impl = "s3" /\ resp = NoResp
    /\ cli = NoClient /\ proc = NoProcess
    /\ now = StartTick
    /\ pc = [c \in Callers |-> "idle"]
    /\ req = [c \in Callers |-> NoReq]
    /\ last = NoLast
    /\ ops = 0

PairNext ==
    \/ \E version \in Versions : BothGet(version)
    \/ \E version \in Seconds, body \in Bodies : BothSafePut(version, body)

PairSpec == PairInit /\ [][PairNext]_vars

\* ================================================================ claims
\* an object that carries a version text in the RFC1123 format
WellFormed(obj) == obj.exists /\ obj.found /\ obj.version # << >>
\* the call that returned last reached the object (no backend or writer failure)
Answered == last.err \notin {BackendError, IOError}
GetOnWellFormed == last.op = "Get" /\ WellFormed(last.pre) /\ Answered

\* C1: on a present object with a well-formed version, Get returns
\* NotModified exactly when the stored version equals the client's version,
\* and then writes nothing to the sink.
C1_GetNotModifiedIffEqual ==
    GetOnWellFormed =>
        /\ (last.err = ErrNotModified) <=> (TimeOf(last.pre.version) = last.arg)
        /\ (last.err = ErrNotModified) => (last.sink = "")

\* C2: on a present object with a well-formed version, Get returns
\* VersionConflict exactly when the stored version is strictly older than the
\* client's version.
C2_GetConflictIffOlder ==
    GetOnWellFormed =>
        ((last.err = ErrVersionConflict)
            <=> After(last.arg, TimeOf(last.pre.version)))

\* C3: on a present object with a well-formed version, Get writes the stored
\* content to the sink and returns the stored version without error exactly
\* when the stored version is strictly newer than the client's version; in
\* every other case the sink stays empty.
C3_GetContentIffNewer ==
    GetOnWellFormed =>
        LET newer == After(TimeOf(last.pre.version), last.arg)
            full  == /\ last.err = Nil
                     /\ last.sink = last.pre.body
                     /\ last.ver = TimeOf(last.pre.version)
        IN  /\ full <=> newer
            /\ ~newer => last.sink = ""

\* the condition under which the claim C4 lets SafePut(v) go through
MayPut(obj, v) == ~obj.exists \/ (WellFormed(obj) /\ After(v, TimeOf(obj.version)))

\* C4: SafePut(v, content) succeeds exactly when the object is absent or v is
\* strictly after the stored version: a SafePut that was refused met an
\* object that forbids it, and a SafePut that passed its check (no write
\* having landed since) met an object that allows it; v equal to the stored
\* version is refused.
C4_SafePutIffStrictlyNewer ==
    /\ (last.op = "SafePut" /\ Answered /\ last.err # Nil)
           => ~MayPut(last.pre, last.arg)
    /\ \A c \in Callers :
           (pc[c] = "write" /\ req[c].op = "SafePut" /\ req[c].raced = "")
               => MayPut(object, req[c].version)

\* C5: when SafePut returns VersionConflict it has issued no write: the
\* object is the one the call met.
C5_ConflictLeavesObject ==
    (last.op = "SafePut" /\ last.err = ErrVersionConflict) => object = last.pre
C5_Witness ==
    /\ last.op = "SafePut" /\ last.err = ErrVersionConflict
    /\ WellFormed(last.pre) /\ object = last.pre

\* C6: GetCurrentVersion on an object whose version this store wrote (after
\* a successful SafePut, say) succeeds and returns that version.
C6_GetCurrentVersionReturnsStored ==
    (last.op = "GetCurrentVersion" /\ WellFormed(last.pre) /\ Answered)
        => (last.err = Nil /\ last.ver = TimeOf(last.pre.version))

\* C7: after a successful SafePut by one caller, a SafePut by another caller
\* that has read nothing since does not get past its version check, so the
\* first caller's content is never silently replaced.
C7_StaleWriterRefused ==
    \A b \in Callers :
        ~ /\ last.op = "SafePut" /\ last.err = Nil /\ last.caller # b
          /\ pc[b] = "write" /\ req[b].op = "SafePut" /\ req[b].raced = ""

\* C8: a SafePut that passed its check before another write landed still
\* issues its write and never returns VersionConflict; when the backend takes
\* the write, the object is that call's content and version.
C8_RacingSafePutsLastWins ==
    (last.op = "SafePut" /\ last.raced # "") =>
        /\ last.err \in {Nil, BackendError}
        /\ last.err = Nil => object = Stored(last.body, Format(last.arg))
C8_Witness ==
    /\ last.op = "SafePut" /\ last.raced = "SafePut" /\ last.err = Nil
    /\ WellFormed(last.pre) /\ last.pre.body # last.body
    /\ ~After(last.arg, TimeOf(last.pre.version))
    /\ object = Stored(last.body, Format(last.arg))

\* C9: Overwrite returns nothing but the backend's own verdict on the put,
\* whatever object it meets: never VersionConflict or InvalidVersion; a put
\* the backend took leaves the call's content stored, a put it refused
\* leaves the object alone.
C9_OverwriteNeverRefused ==
    last.op = "Overwrite" =>
        /\ last.err \in {Nil, BackendError}
        /\ last.err = Nil => (object.exists /\ object.body = last.body)
        /\ last.err = BackendError => object = last.pre
C9_Witness ==
    /\ last.op = "Overwrite" /\ last.err = Nil
    /\ last.pre.exists
    /\ \/ ~last.pre.found
       \/ WellFormed(last.pre) /\ After(TimeOf(last.pre.version), last.arg)

\* C10 as claimed: the version Overwrite stored is at or after the time of
\* the call.
C10_StoredVersionNotBeforeCall ==
    (last.op = "Overwrite" /\ last.err = Nil)
        => TimeOf(object.version) >= last.arg
\* C10 as amended: the version Overwrite stored is the time of the call cut
\* to its whole second: at or before the call, by less than one second.
C10_StoredVersionIsCallSecond ==
    (last.op = "Overwrite" /\ last.err = Nil) =>
        /\ WellFormed(object)
        /\ TimeOf(object.version) <= last.arg
        /\ last.arg < TimeOf(object.version) + SubPerSec
C10_Witness ==
    /\ last.op = "Overwrite" /\ last.err = Nil
    /\ TimeOf(object.version) < last.arg

\* the call that returned last is a read of the version (GetCurrentVersion
\* or Get) that reached the object
VersionRead == last.op \in {"GetCurrentVersion", "Get"} /\ Answered

\* C11: GetCurrentVersion and Get fail with NotFound exactly when the object
\* does not exist, and with InvalidVersion exactly when the object exists
\* and its version metadata is missing or is not a time in the RFC1123
\* format.
C11_NotFoundAndInvalidVersionExact ==
    VersionRead =>
        /\ (last.err = ErrNotFound) <=> ~last.pre.exists
        /\ (last.err = ErrInvalidVersion)
               <=> (last.pre.exists /\ ~WellFormed(last.pre))

\* a write (SafePut or Overwrite) returned last, and the backend took it
Written == last.op \in {"SafePut", "Overwrite"} /\ last.err = Nil

\* C12: once a SafePut or Overwrite has succeeded, a Get with any client
\* version older than the stored one hands back the content that write
\* stored, unchanged, and the version that write stored.
C12_WriteThenGetRoundTrip ==
    Written =>
        \A v \in Versions :
            After(TimeOf(object.version), v) =>
                GetResult(object, v, TRUE, TRUE)
                    = [ver |-> TimeOf(object.version), err |-> Nil,
                       sink |-> last.body]

\* C13: a read (GetCurrentVersion, Get, GetHTMLView) leaves the object as it
\* met it, whatever it returns; and a GetCurrentVersion that follows a
\* GetCurrentVersion with no call returning in between, both having reached
\* the backend, returns what the first returned.
Reads == {"GetCurrentVersion", "Get", "GetHTMLView"}
C13_ReadsLeaveObject ==
    /\ [](last.op \in Reads => object = last.pre)
    /\ [][\A c \in Callers :
            (last.op = "GetCurrentVersion" /\ Answered
                /\ GetCurrentVersion(c) /\ last'.err # BackendError)
                => (last'.ver = last.ver /\ last'.err = last.err)]_vars
C13_Witness ==
    /\ last.op = "GetHTMLView" /\ last.err = Nil
    /\ WellFormed(last.pre) /\ object = last.pre
    /\ last.sink = Base64(object.body)

\* C14: after a successful SafePut or Overwrite the object carries a version
\* that the read path of GetCurrentVersion and Get parses without error.
C14_WrittenVersionReadable ==
    Written => ReadVersion(object, TRUE).err = Nil

\* an object that exists with its version metadata missing or empty
InvalidVersionState(obj) == obj.exists /\ ~WellFormed(obj)

\* C24: a SafePut that meets an object with missing or unparsable version
\* metadata fails with InvalidVersion (or with the backend's error) and issues
\* no write: the object is as it was, and no SafePut waits to write to it.
C24_SafePutRefusesInvalidVersion ==
    /\ (last.op = "SafePut" /\ InvalidVersionState(last.pre)) =>
          /\ last.err = IF last.failed THEN BackendError ELSE ErrInvalidVersion
          /\ object = last.pre
    /\ \A c \in Callers :
          (pc[c] = "write" /\ req[c].op = "SafePut" /\ req[c].raced = "")
              => ~InvalidVersionState(object)
C24_Witness ==
    /\ last.op = "SafePut" /\ last.err = ErrInvalidVersion
    /\ last.pre = NoVersion("hola") /\ object = last.pre

\* C25: a call whose backend request failed with an error other than "no
\* such key" returns the backend's error and leaves the object alone (SafePut
\* issues no write); NotFound is returned for an absent object only.
C25_BackendErrorsPassThrough ==
    /\ last.failed => (last.err = BackendError /\ object = last.pre)
    /\ last.err = ErrNotFound => (~last.failed /\ ~last.pre.exists)
    /\ last.err \in {ErrInvalidVersion, ErrNotModified, ErrVersionConflict}
          => ~last.failed
C25_Witness ==
    /\ last.op = "SafePut" /\ last.failed /\ last.err = BackendError
    /\ WellFormed(last.pre) /\ object = last.pre

\* C28: whenever a write has gone through, the object is the content and the
\* version of that one write call, also when calls overlap; no other call
\* changes the object.
C28_ContentAndVersionOfOneWrite ==
    /\ Written => object = Stored(last.body, Format(last.arg))
    /\ (last.op # "none" /\ ~Written) => object = last.pre
C28_Witness ==
    /\ Written /\ last.raced # "" /\ WellFormed(last.pre)
    /\ last.pre.body # last.body /\ last.pre.version # Format(last.arg)
    /\ object = Stored(last.body, Format(last.arg))

\* C29: a SafePut that overlaps no other write, on an object that is absent
\* or has a well-formed version, leaves a version not before the one it met
\* when it succeeds, and the object as it was when it fails.
C29_SafePutVersionNeverDecreases ==
    (last.op = "SafePut" /\ last.raced = ""
        /\ (~last.pre.exists \/ WellFormed(last.pre))) =>
        IF last.err = Nil
        THEN last.pre.exists
                => TimeOf(object.version) >= TimeOf(last.pre.version)
        ELSE object = last.pre

\* ------------------------------------------------------- endpoint claims
\* the request served last came with the configured token on the root path
AuthedRoot == resp.req.token = AuthToken /\ RootPath(resp.req.path)
\* the store is as the request served last met it
StoreUntouched == object = resp.pre.object /\ mock = resp.pre.mock

\* C15: an authenticated GET or HEAD on the root path for which the store
\* reported NotFound is answered 404, never 500.
C15_NotFoundAnswered404 ==
    (resp.req.method \in {"GET", "HEAD"} /\ AuthedRoot
        /\ resp.err = ErrNotFound) => resp.status = 404

C17_RejectedBeforeStore ==
    (resp.req.method \in {"PUT", "GET"}
        /\ resp.status \in {400, 413, 404, 401})
        => (resp.call = "none" /\ StoreUntouched)
C17_Witness ==
    /\ resp.req.method = "PUT" /\ AuthedRoot /\ resp.status = 413
    /\ resp.req.body # resp.pre.object.body /\ resp.pre.object.exists
    /\ resp.call = "none" /\ StoreUntouched

\* C18: an authenticated PUT on the root path with a valid version header is
\* answered 413 exactly when its content length is greater than SizeLimit.
C18_RejectedIffAboveLimit ==
    (resp.req.method = "PUT" /\ AuthedRoot
        /\ ParseRFC1123(resp.req.modified).ok)
        => ((resp.status = 413) <=> (resp.req.length > SizeLimit))

\* the version and the content of a store that holds a version in the
\* RFC1123 format (or of the mockStore)
HasVersion(st) == impl = "mock" \/ WellFormed(st.object)
StoredVersion(st) ==
    IF impl = "mock" THEN st.mock.version ELSE TimeOf(st.object.version)
StoredBody(st) == IF impl = "mock" THEN st.mock.file ELSE st.object.body

\* C19: a PUT that reaches the store goes to Overwrite when its Force header
\* is present and not "false", to SafePut otherwise; when its version is
\* older than the stored one and the backend answers, the forced PUT is
\* answered 200 and its content is stored, the PUT without force is answered
\* 409 and the store is left as it was.
C19_ForceRoutesToOverwrite ==
    (resp.req.method = "PUT" /\ AuthedRoot /\ resp.call # "none") =>
        /\ resp.call = IF resp.req.force \notin {"", "false"}
                       THEN "Overwrite" ELSE "SafePut"
        /\ (HasVersion(resp.pre) /\ resp.err # BackendError
              /\ After(StoredVersion(resp.pre),
                       ParseRFC1123(resp.req.modified).t))
             => IF resp.req.force \notin {"", "false"}
                THEN /\ resp.status = 200
                     /\ StoredBody([object |-> object, mock |-> mock])
                            = resp.req.body
                ELSE resp.status = 409 /\ StoreUntouched

\* C20: a request other than GET of the view page whose Token header is
\* missing or is not the configured token is answered 401 with a fixed
\* response, whatever its path and headers and whatever is stored; no store
\* operation is invoked and the store is left as it was.
C20_NoTokenNoStore ==
    (resp.req.method # "none" /\ ~IsView(resp.req)
        /\ resp.req.token # AuthToken) =>
        /\ resp.status = 401
        /\ resp.header = << >> /\ resp.body = "Unauthorized request"
        /\ resp.call = "none" /\ StoreUntouched
C20_Witness ==
    /\ resp.req.method = "PUT" /\ resp.req.token = "wrong"
    /\ resp.req.path = "/foo" /\ resp.req.modified = Garbage
    /\ resp.pre.object.exists /\ resp.status = 401

\* the store as it is now
StoreNow == [object |-> object, mock |-> mock]

\* C21: an authenticated GET on the root path answered 200 with the content
\* in its body carries a Last-Modified header equal to the stored version.
C21_BodyComesWithVersionHeader ==
    (resp.req.method = "GET" /\ AuthedRoot /\ resp.status = 200
        /\ resp.body # "")
        => (HasVersion(resp.pre)
              /\ resp.header = Format(StoredVersion(resp.pre)))

\* C22: an authenticated HEAD on the root path that meets an object with a
\* well-formed version (the backend answering) is answered 200 with a
\* Last-Modified header equal to the stored version, with no body, and
\* leaves the store as it was.
C22_HeadReportsStoredVersion ==
    (resp.req.method = "HEAD" /\ AuthedRoot /\ HasVersion(resp.pre)
        /\ resp.err # BackendError)
        => /\ resp.status = 200
           /\ resp.header = Format(StoredVersion(resp.pre))
           /\ resp.body = ""
           /\ StoreUntouched

\* C30: after a PUT answered 200, forced or not, the Last-Modified header of
\* the response is the version that is now stored.
C30_PutHeaderIsStoredVersion ==
    (resp.req.method = "PUT" /\ resp.status = 200)
        => (HasVersion(StoreNow)
              /\ resp.header = Format(StoredVersion(StoreNow)))

\* ---------------------------------------------------------- client claims
\* t cut to its whole second
WholeSecond(t) == TimeOf(Format(t))

\* C23: the client reports its file as newer (exit code 3) only if the
\* file's modification time is after the remote version at whole-second
\* precision.
C23_ConflictAtWholeSeconds ==
    cli.exit = 3 => After(WholeSecond(cli.local), WholeSecond(cli.remote))

\* s is a prefix of t
IsPrefix(s, t) == Len(s) <= Len(t) /\ s = SubSeq(t, 1, Len(s))
Has(step) == \E i \in 1 .. Len(cli.log) : cli.log[i] = step

\* C27: the client reads the local version, sends HEAD, opens the editor and
\* sends PUT in this order; it opens the editor and sends PUT only if the
\* local version it read is not after the remote version it read, and if it
\* is after, the client exits with code 3 without a PUT.
C27_ClientStepsInOrder ==
    /\ IsPrefix(cli.log, <<"stat", "HEAD", "editor", "PUT">>)
    /\ (Has("editor") \/ Has("PUT")) => ~After(cli.local, cli.remote)
    /\ (cli.pc \in {"editor", "upload", "exited"} /\ Has("HEAD")
          /\ cli.exit # 2 /\ After(cli.local, cli.remote))
         => (cli.exit = 3 /\ ~Has("editor") /\ ~Has("PUT"))
    /\ cli.exit = 3 => After(cli.local, cli.remote)
C27_Witness ==
    /\ cli.exit = 0 /\ cli.log = <<"stat", "HEAD", "editor", "PUT">>
    /\ cli.remote # ZeroTime /\ cli.mtime # cli.local
    /\ cli.sent = Format(cli.mtime)

\* --------------------------------------------------------- process claims
\* C26: once Shutdown has been called on a server that did not fail to
\* start, the serving goroutine does not end in a fatal error, the process
\* does not end with exit code 1, no request in flight is cut off, and
\* whatever Shutdown returns is nil.
C26_ShutdownEndsCleanly ==
    (ShutDown /\ proc.err # ListenError)
        => /\ proc.serve # "fatal"
           /\ proc.exit # 1
           /\ \A c \in Conns : proc.conns[c] # "cut"
           /\ proc.ret \in {"none", Nil}

\* a response could not be written to its client
WriteFailed == \E c \in Conns : proc.conns[c] \in {"failed", "fatal"}

\* C31: while the server is not being shut down, a response that could not
\* be written leaves the process running and no other request without its
\* response.
C31_WriteFailureStaysLocal ==
    (WriteFailed /\ ~ShutDown /\ proc.serve = "listening")
        => /\ proc.exit = Running
           /\ \A c \in Conns : proc.conns[c] # "cut"

\* ------------------------------------------------------------ pair claims
\* C32: the S3 store and the mockStore, started alike and given the same Get
\* and SafePut calls, return the same kind of outcome for every call and
\* hold the same content and version after it.
C32_StoresEquivalent ==
    /\ both.s3 = both.mock
    /\ WellFormed(object)
    /\ object.body = mock.file
    /\ object.version = Format(mock.version)

\* ---------------------------------------------------------- system claims
\* the client ended because its environment failed it: a variable not
\* defined, the file, the editor or the connection
EnvironmentFailed == cli.exit \in {1, 2}

\* C33: a run of the client that starts while the remote object does not
\* exist, and that its environment does not fail, leads to a state where
\* the remote object exists.
C33_ClientCreatesObject ==
    (cli.pc = "start" /\ ~object.exists)
        ~> (object.exists \/ EnvironmentFailed)

\* no step of a client run changes the stored object
ClientNeverWrites == [][object' = object]_vars
====
